---- MODULE Spec2Model ----
(***************************************************************************)
(* gpipe: message pipes between gevent processes (src/gpipe.py).           *)
(*                                                                         *)
(* State: per process, the handle objects (_GPipeHandle fields), the       *)
(* module list _all_handles, the OS descriptor table, and the greenlets    *)
(* with their position inside get()/put()/start_process()/_child(); the    *)
(* kernel pipe buffers are shared by all processes.                        *)
(***************************************************************************)
EXTENDS Integers, Sequences, FiniteSets, TLC

----------------------------------------------------------------------------
(* Bounds of the model *)

\* number of pipe() calls that succeed
MaxPipes == 1
\* number of processes, the first one included
MaxProcs == 2
\* greenlets per process
NTasks == 2
\* length of the longest object handed to put()
MaxLen == 1
\* capacity of a kernel pipe buffer, in bytes
PipeCap == 5
\* number of calls of the public operations in one behaviour
MaxOps == 5

----------------------------------------------------------------------------
(* Values *)

Pids == 1 .. MaxProcs
Tasks == 1 .. NTasks
PipeIds == 1 .. MaxPipes
Handles == 1 .. (2 * MaxPipes)

\* the process a behaviour starts in
RootPid == 1
\* the greenlet that runs _child() in a new process
MainTask == 1

ReaderOf(k) == 2 * k - 1
WriterOf(k) == 2 * k
PipeOf(h) == (h + 1) \div 2
IsReader(h) == h % 2 = 1
IsWriter(h) == h % 2 = 0

\* the one byte value objects are made of, and pickle's STOP opcode '.'
DataByte == 65
STOP == 46

RECURSIVE SeqsUpTo(_)
SeqsUpTo(n) ==
  IF n = 0 THEN {<<>>}
  ELSE SeqsUpTo(n - 1) \cup {s \o <<DataByte>> : s \in {q \in SeqsUpTo(n - 1) : Len(q) = n - 1}}

\* the objects put() is called with
Objects == SeqsUpTo(MaxLen)

Min(a, b) == IF a <= b THEN a ELSE b

Take(s, n) == SubSeq(s, 1, n)
Drop(s, n) == SubSeq(s, n + 1, Len(s))

Range(s) == {s[i] : i \in 1 .. Len(s)}

RECURSIVE Remove(_, _)
\* list.remove(x): the first occurrence
Remove(s, x) ==
  IF s = <<>> THEN <<>>
  ELSE IF Head(s) = x THEN Tail(s)
  ELSE <<Head(s)>> \o Remove(Tail(s), x)

----------------------------------------------------------------------------
(* Framing codec: struct.pack("!i", n), struct.unpack("!i", b), pickle *)

\* struct.pack("!i", n): the four bytes of n in two's complement, big-endian
Pack(n) ==
  << (n \div 16777216) % 256, (n \div 65536) % 256, (n \div 256) % 256, n % 256 >>

\* struct.unpack("!i", b): a signed integer, negative when the top bit is set
Unpack(b) ==
  (IF b[1] >= 128 THEN b[1] - 256 ELSE b[1]) * 16777216 + b[2] * 65536 + b[3] * 256 + b[4]

\* pickle.dumps(o, HIGHEST_PROTOCOL): the object's bytes closed by the STOP opcode
Dumps(o) == o \o <<STOP>>

\* pickle.loads(b): EOFError on an empty string, an error when STOP is missing
LoadsOut(b) ==
  IF b = <<>> THEN "EOFError"
  ELSE IF b[Len(b)] # STOP THEN "UnpicklingError"
  ELSE "ok"
Loads(b) == IF LoadsOut(b) = "ok" THEN Take(b, Len(b) - 1) ELSE <<>>

\* the bytes put(o) writes: _write(pack(len)) then _write(bindata)
Frame(o) == Pack(Len(Dumps(o))) \o Dumps(o)

RECURSIVE Frames(_)
Frames(os) == IF os = <<>> THEN <<>> ELSE Frame(Head(os)) \o Frames(Tail(os))

----------------------------------------------------------------------------
(* Outcomes of a call.  The source raises GPipeError with three messages;   *)
(* the names are those of the error kinds.                                  *)

Ok == "ok"
\* GPipeError("GPipeHandle has been closed before.")
HandleClosedError == "GPipeError: closed before"
\* GPipeError("GPipeHandle not registered for current process.")
CrossProcessUseError == "GPipeError: not registered for current process"
\* GPipeError("Can't close: handle locked for I/O operation.")
HandleLockedError == "GPipeError: handle locked"
\* EOFError("Most likely, the other pipe end is closed.")
EOFError == "EOFError"
\* IOError("Message interrupted by EOF.")
TruncatedMessageError == "IOError: interrupted by EOF"
\* os.read/os.write on self._fd = None
TypeError == "TypeError"
\* os.write on a pipe no process reads: EPIPE
BrokenPipeError == "OSError: EPIPE"

----------------------------------------------------------------------------
(* State *)

VARIABLES
  WINDOWS,      \* sys.platform == "win32"
  pstate,       \* per process: "none", "init" (inside _child), "target", "exited", "failed"
  nprocs,       \* processes created so far
  npipes,       \* pipes created so far
  fds,          \* per process: the pipe ends open in its descriptor table
  hnd,          \* per process, per handle: the _GPipeHandle object
  all_handles,  \* per process: the module list _all_handles
  task,         \* per process, per greenlet: where it is
  last,         \* the call that ended last: who called what, and how it ended
  pipes,        \* per pipe: the bytes in the kernel buffer
  sent,         \* per pipe: the objects of the put() calls, in the order they took the lock
  rcvd,         \* per pipe: the objects get() returned, in order
  wire,         \* per pipe: every byte written so far
  gproc,        \* per process: the process that holds its _GProcess object, or 0
  ops           \* public operations called so far

vars == << WINDOWS, pstate, nprocs, npipes, fds, hnd, all_handles, task, last,
           pipes, sent, rcvd, wire, gproc, ops >>

\* a handle object this process does not have
NoHandle ==
  [exists |-> FALSE, fd |-> "None", ihfd |-> FALSE, legit_pid |-> 0, closed |-> FALSE, lock |-> 1]

\* _GPipeHandle.__init__ in process p: the descriptor, the pid, a free Semaphore(1)
NewHandle(p) ==
  [exists |-> TRUE, fd |-> "fd", ihfd |-> FALSE, legit_pid |-> p, closed |-> FALSE, lock |-> 1]

IdleTask ==
  [pc |-> "idle", h |-> 0, data |-> <<>>, rest |-> <<>>, size |-> 0, remaining |-> 0,
   todo |-> <<>>, chl |-> <<>>, timeout |-> "None", njoin |-> 0]

\* the record of a call of op on h by greenlet t of process p
Result(p, t, op, h, out, val) ==
  [pid |-> p, task |-> t, op |-> op, h |-> h, out |-> out, val |-> val]

NoRes == Result(0, 0, "none", 0, Ok, <<>>)

Init ==
  /\ WINDOWS \in BOOLEAN
  /\ pstate = [p \in Pids |-> IF p = RootPid THEN "target" ELSE "none"]
  /\ nprocs = 1
  /\ npipes = 0
  /\ fds = [p \in Pids |-> {}]
  /\ hnd = [p \in Pids |-> [h \in Handles |-> NoHandle]]
  /\ all_handles = [p \in Pids |-> <<>>]
  /\ task = [p \in Pids |-> [t \in Tasks |-> IdleTask]]
  /\ last = NoRes
  /\ pipes = [k \in PipeIds |-> <<>>]
  /\ sent = [k \in PipeIds |-> <<>>]
  /\ rcvd = [k \in PipeIds |-> <<>>]
  /\ wire = [k \in PipeIds |-> <<>>]
  /\ gproc = [p \in Pids |-> 0]
  /\ ops = 0

\* start_process() and its loop over childhandles run without yielding
SyncPcs == {"spawn_close"}

\* greenlet t of process p may take a step: the process runs user code and no
\* other greenlet of it is inside a section that does not yield
CanRun(p, t) ==
  /\ pstate[p] = "target"
  /\ \A u \in Tasks \ {t} : task[p][u].pc \notin SyncPcs

CanCall(p, t) ==
  /\ CanRun(p, t)
  /\ task[p][t].pc = "idle"
  /\ \A u \in Tasks : u < t => task[p][u].pc # "idle"
  /\ ops < MaxOps

NoWriters(k) == \A q \in Pids : WriterOf(k) \notin fds[q]
NoReaders(k) == \A q \in Pids : ReaderOf(k) \notin fds[q]

----------------------------------------------------------------------------
(* _GPipeHandle *)

\* ValidateProcess without the test of self._closed
ValidateProcessPidOnly(p, o) ==
  IF p # o.legit_pid THEN CrossProcessUseError ELSE Ok

\* ValidateProcess without the test of the pid
ValidateProcessClosedOnly(p, o) ==
  IF o.closed THEN HandleClosedError ELSE Ok

\* _validate_process, on the handle object o in process p
ValidateProcess(p, o) ==
  IF o.closed THEN HandleClosedError
  ELSE IF p # o.legit_pid THEN CrossProcessUseError
  ELSE Ok

\* CloseOut of a close() that does not look at the lock
CloseOutIgnoreLock(p, o) == ValidateProcess(p, o)

\* close(): what it raises, if anything
CloseOut(p, o) ==
  IF ValidateProcess(p, o) # Ok THEN ValidateProcess(p, o)
  ELSE IF o.lock = 0 THEN HandleLockedError
  ELSE Ok

\* close(): the handle object afterwards (the lock is taken and released)
CloseHnd(o) == [o EXCEPT !.closed = TRUE, !.fd = "None"]

\* close(): os.close(self._fd) when self._fd is not None
CloseFds(f, o, h) == IF o.fd # "None" THEN f \ {h} ELSE f

\* CloseReg of a close() that leaves the handle in the list
CloseRegKeep(reg, h) == reg

\* close(): _all_handles.remove(self) when it is in the list
CloseReg(reg, h) == IF h \in Range(reg) THEN Remove(reg, h) ELSE reg

\* _set_legit_process
SetLegitProcess(p, o) == [o EXCEPT !.legit_pid = p]

\* _pre_createprocess_windows: an inheritable duplicate, self._fd = False
PreCreateprocessWindows(o) == IF WINDOWS THEN [o EXCEPT !.ihfd = TRUE, !.fd = "False"] ELSE o

\* _post_createprocess_windows: the descriptor is reopened from the duplicate
PostCreateprocessWindows(o) == IF WINDOWS THEN [o EXCEPT !.ihfd = FALSE, !.fd = "fd"] ELSE o

\* h.close() called by greenlet t of process p
Close(p, t, h) ==
  /\ CanCall(p, t)
  /\ hnd[p][h].exists
  /\ ops' = ops + 1
  /\ LET o == hnd[p][h]
         out == CloseOut(p, o)
     IN  /\ last' = Result(p, t, "close", h, out, <<>>)
         /\ IF out = Ok
            THEN /\ hnd' = [hnd EXCEPT ![p][h] = CloseHnd(o)]
                 /\ fds' = [fds EXCEPT ![p] = CloseFds(@, o, h)]
                 /\ all_handles' = [all_handles EXCEPT ![p] = CloseReg(@, h)]
            ELSE UNCHANGED << hnd, fds, all_handles >>
  /\ UNCHANGED << WINDOWS, gproc, pstate, nprocs, npipes, task, pipes, sent, rcvd, wire >>

\* pipe() called by greenlet t of process p
Pipe(p, t) ==
  /\ CanCall(p, t)
  /\ npipes < MaxPipes
  /\ LET k == npipes + 1
         r == ReaderOf(k)
         w == WriterOf(k)
     IN  /\ npipes' = k
         /\ fds' = [fds EXCEPT ![p] = @ \cup {r, w}]
         /\ hnd' = [hnd EXCEPT ![p][r] = NewHandle(p), ![p][w] = NewHandle(p)]
         /\ all_handles' = [all_handles EXCEPT ![p] = @ \o <<r, w>>]
         /\ last' = Result(p, t, "pipe", r, Ok, <<>>)
  /\ ops' = ops + 1
  /\ UNCHANGED << WINDOWS, gproc, pstate, nprocs, task, pipes, sent, rcvd, wire >>

----------------------------------------------------------------------------
(* _GPipeReader *)

\* a call ends: the result is recorded and the greenlet is idle again
Finish(p, t, r) ==
  /\ task' = [task EXCEPT ![p][t] = IdleTask]
  /\ last' = r

\* ReadbufWrite that puts the chunk in front of what was read before
ReadbufWritePrepend(readbuf, chunk) == chunk \o readbuf

\* _recv_in_buffer: readbuf.write(chunk)
ReadbufWrite(readbuf, chunk) == readbuf \o chunk

\* LockFree of a lock that never blocks
LockFreeAlways(o) == TRUE

\* self._lock.acquire() would not block: the Semaphore's counter is 1
LockFree(o) == o.lock = 1

\* RecvFail with the two cases exchanged
RecvFailSwapped(remaining, size) ==
  IF remaining = size THEN TruncatedMessageError ELSE EOFError

\* RecvFail that tells every read of no byte as the end of the stream
RecvFailEofOnly(remaining, size) == EOFError

\* _recv_in_buffer: a read that returned no byte
RecvFail(remaining, size) ==
  IF remaining = size THEN EOFError ELSE TruncatedMessageError

\* "with self._lock" entered by get(): _recv_in_buffer(4) starts
GetLocked(h) ==
  [IdleTask EXCEPT !.pc = "get_hdr", !.h = h, !.size = 4, !.remaining = 4]

\* get() called by greenlet t of process p on reader h
Get(p, t, h) ==
  /\ CanCall(p, t)
  /\ hnd[p][h].exists
  /\ IsReader(h)
  /\ ops' = ops + 1
  /\ LET o == hnd[p][h]
         v == ValidateProcess(p, o)
     IN  IF v # Ok
         THEN /\ last' = Result(p, t, "get", h, v, <<>>)
              /\ UNCHANGED << task, hnd >>
         ELSE /\ UNCHANGED last
              /\ IF LockFree(o)
                 THEN /\ hnd' = [hnd EXCEPT ![p][h].lock = 0]
                      /\ task' = [task EXCEPT ![p][t] = GetLocked(h)]
                 ELSE /\ task' = [task EXCEPT ![p][t] = [IdleTask EXCEPT !.pc = "get_lock", !.h = h]]
                      /\ UNCHANGED hnd
  /\ UNCHANGED << WINDOWS, gproc, pstate, nprocs, npipes, fds, all_handles, pipes, sent, rcvd, wire >>

\* a get() that waited for the lock takes it
GetAcquire(p, t) ==
  /\ CanRun(p, t)
  /\ task[p][t].pc = "get_lock"
  /\ LockFree(hnd[p][task[p][t].h])
  /\ hnd' = [hnd EXCEPT ![p][task[p][t].h].lock = 0]
  /\ task' = [task EXCEPT ![p][t] = GetLocked(task[p][t].h)]
  /\ UNCHANGED << WINDOWS, gproc, pstate, nprocs, npipes, fds, all_handles, last, pipes, sent, rcvd,
                  wire, ops >>

\* GetEnd that releases the lock only when get() returns
GetEndKeepLockOnError(p, t, out, val) ==
  LET h == task[p][t].h
  IN  /\ hnd' = [hnd EXCEPT ![p][h].lock = IF out = Ok THEN 1 ELSE @]
      /\ Finish(p, t, Result(p, t, "get", h, out, val))
      /\ rcvd' = IF out = Ok THEN [rcvd EXCEPT ![PipeOf(h)] = Append(@, val)] ELSE rcvd

\* get() leaves "with self._lock" with outcome out and value val
GetEnd(p, t, out, val) ==
  LET h == task[p][t].h
  IN  /\ hnd' = [hnd EXCEPT ![p][h].lock = 1]
      /\ Finish(p, t, Result(p, t, "get", h, out, val))
      /\ rcvd' = IF out = Ok THEN [rcvd EXCEPT ![PipeOf(h)] = Append(@, val)] ELSE rcvd

\* one _READ_NB(self._fd, remaining) of _recv_in_buffer, and what follows it
\* without a further read
Recv(p, t) ==
  /\ CanRun(p, t)
  /\ task[p][t].pc \in {"get_hdr", "get_body"}
  /\ LET tk == task[p][t]
         h == tk.h
         k == PipeOf(h)
     IN  IF hnd[p][h].fd = "None"
         THEN /\ GetEnd(p, t, TypeError, <<>>)
              /\ UNCHANGED pipes
         ELSE IF pipes[k] = <<>>
         THEN /\ NoWriters(k)
              /\ GetEnd(p, t, RecvFail(tk.remaining, tk.size), <<>>)
              /\ UNCHANGED pipes
         ELSE \E n \in 1 .. Min(tk.remaining, Len(pipes[k])) :
                LET buf == ReadbufWrite(tk.data, Take(pipes[k], n))
                    rem == tk.remaining - n
                IN  /\ pipes' = [pipes EXCEPT ![k] = Drop(@, n)]
                    /\ IF rem > 0
                       THEN /\ task' = [task EXCEPT ![p][t].data = buf, ![p][t].remaining = rem]
                            /\ UNCHANGED << hnd, last, rcvd >>
                       ELSE IF tk.pc = "get_hdr" /\ Unpack(buf) > 0
                       THEN /\ task' = [task EXCEPT ![p][t] =
                                          [tk EXCEPT !.pc = "get_body", !.data = <<>>,
                                                     !.size = Unpack(buf),
                                                     !.remaining = Unpack(buf)]]
                            /\ UNCHANGED << hnd, last, rcvd >>
                       ELSE LET bindata == IF tk.pc = "get_hdr" THEN <<>> ELSE buf
                            IN  GetEnd(p, t, LoadsOut(bindata), Loads(bindata))
  /\ UNCHANGED << WINDOWS, gproc, pstate, nprocs, npipes, fds, all_handles, sent, wire, ops >>

----------------------------------------------------------------------------
(* _GPipeWriter *)

\* _write: bindata[-diff:], the part a partial write left
Unwritten(bindata, diff) == SubSeq(bindata, Len(bindata) - diff + 1, Len(bindata))

\* PutLocked with the length of the object in the prefix, not that of bindata
PutLockedLenOfObject(h, o) ==
  [IdleTask EXCEPT !.pc = "put_hdr", !.h = h, !.data = Pack(Len(o)), !.rest = Dumps(o)]

\* "with self._lock" entered by put(o): the object is pickled and
\* _write(struct.pack("!i", len(bindata))) starts
PutLocked(h, o) ==
  [IdleTask EXCEPT !.pc = "put_hdr", !.h = h, !.data = Pack(Len(Dumps(o))), !.rest = Dumps(o)]

\* put(o) called by greenlet t of process p on writer h
Put(p, t, h, o) ==
  /\ CanCall(p, t)
  /\ hnd[p][h].exists
  /\ IsWriter(h)
  /\ ops' = ops + 1
  /\ LET ho == hnd[p][h]
         v == ValidateProcess(p, ho)
     IN  IF v # Ok
         THEN /\ last' = Result(p, t, "put", h, v, <<>>)
              /\ UNCHANGED << task, hnd, sent >>
         ELSE /\ UNCHANGED last
              /\ IF LockFree(ho)
                 THEN /\ hnd' = [hnd EXCEPT ![p][h].lock = 0]
                      /\ task' = [task EXCEPT ![p][t] = PutLocked(h, o)]
                      /\ sent' = [sent EXCEPT ![PipeOf(h)] = Append(@, o)]
                 ELSE /\ task' = [task EXCEPT ![p][t] =
                                    [IdleTask EXCEPT !.pc = "put_lock", !.h = h, !.rest = o]]
                      /\ UNCHANGED << hnd, sent >>
  /\ UNCHANGED << WINDOWS, gproc, pstate, nprocs, npipes, fds, all_handles, pipes, rcvd, wire >>

\* a put() that waited for the lock takes it
PutAcquire(p, t) ==
  /\ CanRun(p, t)
  /\ task[p][t].pc = "put_lock"
  /\ LockFree(hnd[p][task[p][t].h])
  /\ hnd' = [hnd EXCEPT ![p][task[p][t].h].lock = 0]
  /\ task' = [task EXCEPT ![p][t] = PutLocked(task[p][t].h, task[p][t].rest)]
  /\ sent' = [sent EXCEPT ![PipeOf(task[p][t].h)] = Append(@, task[p][t].rest)]
  /\ UNCHANGED << WINDOWS, gproc, pstate, nprocs, npipes, fds, all_handles, last, pipes, rcvd,
                  wire, ops >>

\* put() leaves "with self._lock" with outcome out
PutEnd(p, t, out) ==
  LET h == task[p][t].h
  IN  /\ hnd' = [hnd EXCEPT ![p][h].lock = 1]
      /\ Finish(p, t, Result(p, t, "put", h, out, <<>>))

\* one _WRITE_NB(self._fd, bindata) of _write, and what follows it without a
\* further write
Write(p, t) ==
  /\ CanRun(p, t)
  /\ task[p][t].pc \in {"put_hdr", "put_body"}
  /\ LET tk == task[p][t]
         h == tk.h
         k == PipeOf(h)
     IN  IF hnd[p][h].fd = "None"
         THEN /\ PutEnd(p, t, TypeError)
              /\ UNCHANGED << pipes, wire >>
         ELSE IF NoReaders(k)
         THEN /\ PutEnd(p, t, BrokenPipeError)
              /\ UNCHANGED << pipes, wire >>
         ELSE /\ Len(pipes[k]) < PipeCap
              /\ \E n \in 1 .. Min(Len(tk.data), PipeCap - Len(pipes[k])) :
                   LET diff == Len(tk.data) - n
                   IN  /\ pipes' = [pipes EXCEPT ![k] = @ \o Take(tk.data, n)]
                       /\ wire' = [wire EXCEPT ![k] = @ \o Take(tk.data, n)]
                       /\ IF diff # 0
                          THEN /\ task' = [task EXCEPT ![p][t].data = Unwritten(tk.data, diff)]
                               /\ UNCHANGED << hnd, last >>
                          ELSE IF tk.pc = "put_hdr"
                          THEN /\ task' = [task EXCEPT ![p][t] =
                                             [tk EXCEPT !.pc = "put_body", !.data = tk.rest,
                                                        !.rest = <<>>]]
                               /\ UNCHANGED << hnd, last >>
                          ELSE PutEnd(p, t, Ok)
  /\ UNCHANGED << WINDOWS, gproc, pstate, nprocs, npipes, fds, all_handles, sent, rcvd, ops >>

----------------------------------------------------------------------------
(* start_process and _child *)

RECURSIVE ListsOf(_)
\* the lists without repetition over the handles in S
ListsOf(S) ==
  {<<>>} \cup UNION {{<<h>> \o l : l \in ListsOf(S \ {h})} : h \in S}

\* the memory of a process that has ended
DeadHnd == [h \in Handles |-> NoHandle]
DeadTasks == [t \in Tasks |-> IdleTask]

\* the handle objects the child starts with: a copy of the parent's memory after
\* fork; on Windows the pickled handles of _all_handles, prepared for the transfer
ChildHnd(p) ==
  IF WINDOWS
  THEN [h \in Handles |->
          IF h \in Range(all_handles[p]) THEN PreCreateprocessWindows(hnd[p][h]) ELSE NoHandle]
  ELSE hnd[p]

\* the descriptors the child starts with: all of the parent's after fork; on
\* Windows the inheritable duplicates
ChildFds(p) == IF WINDOWS THEN fds[p] \cap Range(all_handles[p]) ELSE fds[p]

\* the module list _all_handles the child starts with: the parent's after fork;
\* on Windows that of a freshly imported module ("_all_handles = all_handles"
\* in _child binds a local name)
ChildReg(p) == IF WINDOWS THEN <<>> ELSE all_handles[p]

\* start_process(childhandles, target) called by greenlet t of process p, up to
\* and including p.start()
StartProcess(p, t, childhandles) ==
  /\ CanCall(p, t)
  /\ nprocs < MaxProcs
  /\ childhandles \in ListsOf(Range(all_handles[p]))
  /\ LET c == nprocs + 1
     IN  /\ nprocs' = c
         /\ pstate' = [pstate EXCEPT ![c] = "init"]
         /\ hnd' = [hnd EXCEPT ![c] = ChildHnd(p)]
         /\ fds' = [fds EXCEPT ![c] = ChildFds(p)]
         /\ all_handles' = [all_handles EXCEPT ![c] = ChildReg(p)]
         /\ task' = [task EXCEPT
                       ![c] = [u \in Tasks |->
                                 IF u = MainTask
                                 THEN [IdleTask EXCEPT !.pc = "child_loop",
                                                       !.todo = all_handles[p],
                                                       !.chl = childhandles]
                                 ELSE IdleTask],
                       ![p][t] = IF childhandles = <<>> THEN IdleTask
                                 ELSE [IdleTask EXCEPT !.pc = "spawn_close",
                                                       !.h = c,
                                                       !.todo = childhandles,
                                                       !.chl = childhandles]]
         /\ last' = IF childhandles = <<>>
                    THEN Result(p, t, "start_process", c, Ok, childhandles)
                    ELSE last
         /\ gproc' = IF childhandles = <<>> THEN [gproc EXCEPT ![c] = p] ELSE gproc
  /\ ops' = ops + 1
  /\ UNCHANGED << WINDOWS, npipes, pipes, sent, rcvd, wire >>

\* start_process, one round of "for h in childhandles: h.close()"; an exception
\* of close() ends start_process
SpawnClose(p, t) ==
  /\ CanRun(p, t)
  /\ task[p][t].pc = "spawn_close"
  /\ LET h == Head(task[p][t].todo)
         o == hnd[p][h]
         out == CloseOut(p, o)
         r == Result(p, t, "start_process", task[p][t].h, out, task[p][t].chl)
     IN  IF out = Ok
         THEN /\ hnd' = [hnd EXCEPT ![p][h] = CloseHnd(o)]
              /\ fds' = [fds EXCEPT ![p] = CloseFds(@, o, h)]
              /\ all_handles' = [all_handles EXCEPT ![p] = CloseReg(@, h)]
              /\ IF Tail(task[p][t].todo) = <<>>
                 THEN /\ Finish(p, t, r)
                      /\ gproc' = [gproc EXCEPT ![task[p][t].h] = p]
                 ELSE /\ task' = [task EXCEPT ![p][t].todo = Tail(@)]
                      /\ UNCHANGED << last, gproc >>
         ELSE /\ Finish(p, t, r)
              /\ UNCHANGED << hnd, fds, all_handles, gproc >>
  /\ UNCHANGED << WINDOWS, pstate, nprocs, npipes, pipes, sent, rcvd, wire, ops >>

\* the process c ends: its memory and its descriptors are gone
Dies(c, how) ==
  /\ pstate' = [pstate EXCEPT ![c] = how]
  /\ hnd' = [hnd EXCEPT ![c] = DeadHnd]
  /\ fds' = [fds EXCEPT ![c] = {}]
  /\ all_handles' = [all_handles EXCEPT ![c] = <<>>]
  /\ task' = [task EXCEPT ![c] = DeadTasks]

\* _child, one round of "for h in _all_handles[:]"; an exception of close() ends
\* the child process before target is called
ChildLoop(c) ==
  /\ pstate[c] = "init"
  /\ task[c][MainTask].pc = "child_loop"
  /\ task[c][MainTask].todo # <<>>
  /\ LET tk == task[c][MainTask]
         h == Head(tk.todo)
         o == PostCreateprocessWindows(SetLegitProcess(c, hnd[c][h]))
     IN  IF h \in Range(tk.chl)
         THEN /\ hnd' = [hnd EXCEPT ![c][h] = o]
              /\ task' = [task EXCEPT ![c][MainTask].todo = Tail(@)]
              /\ UNCHANGED << pstate, fds, all_handles >>
         ELSE IF CloseOut(c, o) = Ok
         THEN /\ hnd' = [hnd EXCEPT ![c][h] = CloseHnd(o)]
              /\ fds' = [fds EXCEPT ![c] = CloseFds(@, o, h)]
              /\ all_handles' = [all_handles EXCEPT ![c] = CloseReg(@, h)]
              /\ task' = [task EXCEPT ![c][MainTask].todo = Tail(@)]
              /\ UNCHANGED pstate
         ELSE Dies(c, "failed")
  /\ UNCHANGED << WINDOWS, gproc, nprocs, npipes, last, pipes, sent, rcvd, wire, ops >>

\* _child: target(*childhandles, **kwargs) is called
ChildTarget(c) ==
  /\ pstate[c] = "init"
  /\ task[c][MainTask].pc = "child_loop"
  /\ task[c][MainTask].todo = <<>>
  /\ pstate' = [pstate EXCEPT ![c] = "target"]
  /\ task' = [task EXCEPT ![c][MainTask] = IdleTask]
  /\ UNCHANGED << WINDOWS, gproc, nprocs, npipes, fds, hnd, all_handles, last, pipes, sent, rcvd,
                  wire, ops >>

\* a child process made with multiprocessing.Process() directly (fork): it has a
\* copy of the parent's memory and descriptors, and _child never runs
RawFork(p, t) ==
  /\ CanCall(p, t)
  /\ nprocs < MaxProcs
  /\ ~WINDOWS
  /\ LET c == nprocs + 1
     IN  /\ nprocs' = c
         /\ pstate' = [pstate EXCEPT ![c] = "target"]
         /\ hnd' = [hnd EXCEPT ![c] = hnd[p]]
         /\ fds' = [fds EXCEPT ![c] = fds[p]]
         /\ all_handles' = [all_handles EXCEPT ![c] = all_handles[p]]
         /\ task' = [task EXCEPT ![c] = DeadTasks]
         /\ last' = Result(p, t, "fork", c, Ok, <<>>)
  /\ ops' = ops + 1
  /\ UNCHANGED << WINDOWS, gproc, npipes, pipes, sent, rcvd, wire >>

\* a child process ends (target returned, or the process was killed)
Exit(c) ==
  /\ c # RootPid
  /\ pstate[c] = "target"
  /\ Dies(c, "exited")
  /\ UNCHANGED << WINDOWS, gproc, nprocs, npipes, last, pipes, sent, rcvd, wire, ops >>

----------------------------------------------------------------------------
(* _GProcess *)

\* IsAlive of a process object that never reports its process alive
IsAliveNever(c) == FALSE

\* multiprocessing.Process.is_alive(): the process was started and has not ended
IsAlive(c) == pstate[c] \in {"init", "target"}

\* the values of join()'s timeout: None, or a number of seconds
Timeouts == {"None", "finite"}

\* join(timeout) called by greenlet t of process p on the _GProcess of child c:
\* gevent.Timeout(timeout, False) is armed and the polling loop entered
Join(p, t, c, timeout) ==
  /\ CanCall(p, t)
  /\ gproc[c] = p
  /\ timeout \in Timeouts
  /\ task' = [task EXCEPT ![p][t] =
                [IdleTask EXCEPT !.pc = "join_poll", !.h = c, !.timeout = timeout]]
  /\ ops' = ops + 1
  /\ UNCHANGED << WINDOWS, gproc, pstate, nprocs, npipes, fds, hnd, all_handles, last, pipes,
                  sent, rcvd, wire >>

\* join, "while self.is_alive(): gevent.sleep(0.1)": is_alive() is false and the
\* loop is left; while it is true the greenlet sleeps and the state stays as it is
JoinPoll(p, t) ==
  /\ CanRun(p, t)
  /\ task[p][t].pc = "join_poll"
  /\ ~IsAlive(task[p][t].h)
  /\ task' = [task EXCEPT ![p][t].pc = "join_super"]
  /\ UNCHANGED << WINDOWS, gproc, pstate, nprocs, npipes, fds, hnd, all_handles, last, pipes,
                  sent, rcvd, wire, ops >>

\* join, gevent.Timeout(timeout, False): the timeout fires while the greenlet
\* sleeps and the "with" block is left without an exception
JoinTimeout(p, t) ==
  /\ CanRun(p, t)
  /\ task[p][t].pc = "join_poll"
  /\ task[p][t].timeout # "None"
  /\ task' = [task EXCEPT ![p][t].pc = "join_super"]
  /\ UNCHANGED << WINDOWS, gproc, pstate, nprocs, npipes, fds, hnd, all_handles, last, pipes,
                  sent, rcvd, wire, ops >>

\* join, super(_GProcess, self).join(timeout=0), and the return
JoinSuper(p, t) ==
  /\ CanRun(p, t)
  /\ task[p][t].pc = "join_super"
  /\ Finish(p, t, Result(p, t, "join", task[p][t].h, Ok, <<task[p][t].njoin + 1>>))
  /\ UNCHANGED << WINDOWS, gproc, pstate, nprocs, npipes, fds, hnd, all_handles, pipes,
                  sent, rcvd, wire, ops >>

----------------------------------------------------------------------------
(* Specifications *)

\* the operations on pipes inside one process
NextIO ==
  \E p \in Pids, t \in Tasks :
    \/ Pipe(p, t)
    \/ \E h \in Handles : Close(p, t, h)
    \/ \E h \in Handles : Get(p, t, h)
    \/ GetAcquire(p, t)
    \/ Recv(p, t)
    \/ \E h \in Handles, o \in Objects : Put(p, t, h, o)
    \/ PutAcquire(p, t)
    \/ Write(p, t)

\* process creation with start_process, and termination
NextSpawn ==
  \/ \E p \in Pids, t \in Tasks :
       \/ \E l \in ListsOf(Handles) : StartProcess(p, t, l)
       \/ SpawnClose(p, t)
       \/ \E c \in Pids, timeout \in Timeouts : Join(p, t, c, timeout)
       \/ JoinPoll(p, t)
       \/ JoinTimeout(p, t)
       \/ JoinSuper(p, t)
  \/ \E c \in Pids :
       \/ ChildLoop(c)
       \/ ChildTarget(c)
       \/ Exit(c)

\* process creation, with start_process or without it, and termination
NextProc ==
  \/ NextSpawn
  \/ \E p \in Pids, t \in Tasks : RawFork(p, t)

Next == NextIO \/ NextProc

\* every operation, in every process
Spec == Init /\ [][Next]_vars

\* every operation, when processes are created with start_process only
SpecSpawn == Init /\ [][NextIO \/ NextSpawn]_vars

\* the operations on pipes in the first process alone: no process is created
SpecIO == Init /\ [][NextIO]_vars

\* the values of the bytes of a length prefix a reader may find in its pipe
PrefixBytes == {0, 1, 127, 128, 255}

\* get() on the bytes of a peer: the first process has made a pipe, a greenlet
\* of it has entered get() on the reader, and the pipe holds the four bytes of a
\* length prefix and at most one byte of payload, written through the write end
InitCodec ==
  /\ WINDOWS \in BOOLEAN
  /\ pstate = [p \in Pids |-> IF p = RootPid THEN "target" ELSE "none"]
  /\ nprocs = 1
  /\ npipes = 1
  /\ fds = [p \in Pids |-> IF p = RootPid THEN {ReaderOf(1), WriterOf(1)} ELSE {}]
  /\ hnd = [p \in Pids |-> [h \in Handles |->
              IF p = RootPid /\ h = ReaderOf(1) THEN [NewHandle(p) EXCEPT !.lock = 0]
              ELSE IF p = RootPid /\ h = WriterOf(1) THEN NewHandle(p)
              ELSE NoHandle]]
  /\ all_handles = [p \in Pids |-> IF p = RootPid THEN <<ReaderOf(1), WriterOf(1)>> ELSE <<>>]
  /\ task = [p \in Pids |-> [t \in Tasks |->
               IF p = RootPid /\ t = MainTask THEN GetLocked(ReaderOf(1)) ELSE IdleTask]]
  /\ last = Result(RootPid, MainTask, "pipe", ReaderOf(1), Ok, <<>>)
  /\ \E b1 \in PrefixBytes, b2 \in PrefixBytes, b3 \in PrefixBytes, b4 \in PrefixBytes :
       \E payload \in {<<>>, <<STOP>>} :
         /\ pipes = [k \in PipeIds |-> IF k = 1 THEN <<b1, b2, b3, b4>> \o payload ELSE <<>>]
         /\ wire = pipes
  /\ sent = [k \in PipeIds |-> <<>>]
  /\ rcvd = [k \in PipeIds |-> <<>>]
  /\ gproc = [p \in Pids |-> 0]
  /\ ops = 2

\* the reads of get()
NextCodec == \E p \in Pids, t \in Tasks : Recv(p, t)

\* get() on every length prefix over PrefixBytes
SpecCodec == InitCodec /\ [][NextCodec]_vars

----------------------------------------------------------------------------
(* Properties *)

IsPrefix(a, b) == Len(a) <= Len(b) /\ a = Take(b, Len(a))

\* the greenlets of process p inside "with self._lock" of handle h
Holders(p, h) ==
  {t \in Tasks : task[p][t].h = h
                 /\ task[p][t].pc \in {"get_hdr", "get_body", "put_hdr", "put_body"}}

\* the greenlets, of any process, inside put() on the writer of pipe k
Putting(k) ==
  {pt \in Pids \X Tasks : task[pt[1]][pt[2]].h = WriterOf(k)
                          /\ task[pt[1]][pt[2]].pc \in {"put_hdr", "put_body"}}

\* the greenlets, of any process, inside get() on the reader of pipe k
Getting(k) ==
  {pt \in Pids \X Tasks : task[pt[1]][pt[2]].h = ReaderOf(k)
                          /\ task[pt[1]][pt[2]].pc \in {"get_hdr", "get_body"}}

\* the bytes of its frame a put() has still to write
ToWrite(tk) == tk.data \o tk.rest

\* the bytes of its frame a get() has read so far
Consumed(tk) == IF tk.pc = "get_hdr" THEN tk.data ELSE Pack(tk.size) \o tk.data

\* C1 (round trip): a get() that ends has returned exactly the object of the
\* put() whose frame it read, whatever the partial writes and reads were; it
\* raises only on a handle it may not read or when no write end is left.
RoundTrip ==
  last.op = "get" =>
    LET k == PipeOf(last.h)
    IN  \/ /\ last.out = Ok
           /\ rcvd[k] # <<>>
           /\ Len(rcvd[k]) <= Len(sent[k])
           /\ last.val = sent[k][Len(rcvd[k])]
        \/ last.out \in {HandleClosedError, CrossProcessUseError, TypeError}
        \/ last.out = EOFError /\ NoWriters(k)

\* C1: a get() returned an object whose frame does not fit in the pipe
RoundTripWitness ==
  /\ last.op = "get"
  /\ last.out = Ok
  /\ Len(Frame(last.val)) > PipeCap
  /\ last.val = sent[PipeOf(last.h)][Len(rcvd[PipeOf(last.h)])]

\* C2 (ordering): the objects the get() calls returned are, in order, the first
\* objects put; when every frame is written and read, none is missing.
FifoOrder ==
  \A k \in PipeIds :
    /\ IsPrefix(rcvd[k], sent[k])
    /\ (Getting(k) = {} /\ pipes[k] = <<>> /\ wire[k] = Frames(sent[k])) => rcvd[k] = sent[k]

\* C2: two different objects were received, in the order they were put
FifoOrderWitness ==
  \E k \in PipeIds :
    /\ Len(rcvd[k]) = 2
    /\ rcvd[k][1] # rcvd[k][2]
    /\ rcvd[k] = sent[k]

\* C3 (mutual exclusion): at most one greenlet of a process is inside get() or
\* put() of a handle, and then the lock is taken; the bytes written to a pipe are
\* whole frames one after the other, in the order the put() calls took the lock;
\* the bytes read are whole frames, one per get().  A put() that took the lock
\* of a handle closed in the meantime writes no byte at all (os.write(None, ..)
\* raises), so the frame being written is that of a put() on an open handle.
OneFrameAtATime ==
  /\ \A p \in Pids, h \in Handles :
       /\ Cardinality(Holders(p, h)) <= 1
       /\ Holders(p, h) # {} => hnd[p][h].lock = 0
  /\ \A k \in PipeIds :
       /\ IsPrefix(wire[k], Frames(sent[k]))
       /\ \A pt \in Putting(k) :
            ~NoReaders(k) /\ ~hnd[pt[1]][WriterOf(k)].closed
              => wire[k] \o ToWrite(task[pt[1]][pt[2]]) = Frames(sent[k])
       /\ Getting(k) = {} => wire[k] = Frames(rcvd[k]) \o pipes[k]
       /\ \A pt \in Getting(k) :
            wire[k] = Frames(rcvd[k]) \o Consumed(task[pt[1]][pt[2]]) \o pipes[k]

\* C3: a put() is suspended in the middle of its frame while another put() on
\* the same writer waits for the lock, after a first frame was written whole
OneFrameAtATimeWitness ==
  \E p \in Pids, t \in Tasks, u \in Tasks :
    /\ task[p][t].pc = "put_body"
    /\ task[p][u].pc = "put_lock"
    /\ task[p][u].h = task[p][t].h
    /\ rcvd[PipeOf(task[p][t].h)] # <<>>

\* a call of get(), put() or close() on handle h by greenlet t of process p
Call(p, t, h) ==
  \/ Close(p, t, h)
  \/ Get(p, t, h)
  \/ \E o \in Objects : Put(p, t, h, o)

\* what a call that must not touch anything leaves as it is
Untouched == UNCHANGED << pstate, fds, hnd, all_handles, task, pipes, sent, rcvd, wire >>

\* C4 (lock contention): close() on an open handle while a get() or put() of the same
\* process is suspended inside its lock raises the "handle locked" error at once
\* and changes nothing: not the handle, the descriptors, _all_handles or the lock,
\* nor the position of the suspended call, which goes on as if close() had not
\* been called.
CloseWhileLocked ==
  [][\A p \in Pids, t \in Tasks, h \in Handles :
       (Close(p, t, h) /\ ~hnd[p][h].closed /\ Holders(p, h) # {}) =>
         /\ last' = Result(p, t, "close", h, HandleLockedError, <<>>)
         /\ Untouched]_vars

\* C4: close() was refused on a handle whose get() is suspended after it has read
\* a part of a frame
CloseWhileLockedWitness ==
  /\ last.op = "close"
  /\ last.out = HandleLockedError
  /\ \E t \in Holders(last.pid, last.h) :
       task[last.pid][t].pc = "get_body" /\ task[last.pid][t].data # <<>>

\* C5 (closed-handle reuse): once a handle is closed in a process it stays
\* closed there, and get(), put() and close() on it raise the "closed before"
\* error and read, write and release nothing.
ClosedHandleReuse ==
  [][\A p \in Pids, h \in Handles :
       hnd[p][h].closed =>
         /\ pstate'[p] = "target" => hnd'[p][h].closed
         /\ \A t \in Tasks :
              Call(p, t, h) =>
                /\ last'.pid = p /\ last'.task = t /\ last'.h = h
                /\ last'.out = HandleClosedError
                /\ Untouched]_vars

\* C5: a get() was called on a reader after its close() had succeeded
ClosedHandleReuseWitness ==
  /\ last.op = "get"
  /\ last.out = HandleClosedError
  /\ hnd[last.pid][last.h].closed
  /\ hnd[last.pid][last.h].fd = "None"

\* C6 (cross-process misuse): get(), put() and close() on an open handle whose
\* _legit_pid is not the calling process raise the "not registered" error and
\* change nothing, also when the descriptor is open in the calling process.
CrossProcessUse ==
  [][\A p \in Pids, t \in Tasks, h \in Handles :
       (hnd[p][h].exists /\ ~hnd[p][h].closed /\ hnd[p][h].legit_pid # p /\ Call(p, t, h)) =>
         /\ last'.pid = p /\ last'.task = t /\ last'.h = h
         /\ last'.out = CrossProcessUseError
         /\ Untouched]_vars

\* C6: a put() was refused in a process that has the descriptor open but is not
\* the registered one
CrossProcessUseWitness ==
  /\ last.op = "put"
  /\ last.out = CrossProcessUseError
  /\ last.h \in fds[last.pid]
  /\ hnd[last.pid][last.h].legit_pid # last.pid

\* a get() of greenlet t of process p is about to read the first byte of a
\* message from a pipe that is empty and that no process can write to
AtEndOfFile(p, t) ==
  /\ CanRun(p, t)
  /\ task[p][t].pc = "get_hdr"
  /\ task[p][t].data = <<>>
  /\ ~hnd[p][task[p][t].h].closed
  /\ pipes[PipeOf(task[p][t].h)] = <<>>
  /\ NoWriters(PipeOf(task[p][t].h))

\* C7 (EOF): when no process has the write end open and the pipe is empty, a
\* get() that has read nothing of a message is not left waiting, and its read
\* ends it with EOFError.
EofWhenWriterClosed ==
  /\ [](\A p \in Pids, t \in Tasks : AtEndOfFile(p, t) => ENABLED Recv(p, t))
  /\ [][\A p \in Pids, t \in Tasks :
          (AtEndOfFile(p, t) /\ Recv(p, t)) =>
            last' = Result(p, t, "get", task[p][t].h, EOFError, <<>>)]_vars

\* C7: a get() ended with EOFError in a process other than the one that had put
\* and closed, after a first message was received
EofWhenWriterClosedWitness ==
  /\ last.op = "get"
  /\ last.out = EOFError
  /\ NoWriters(PipeOf(last.h))
  /\ rcvd[PipeOf(last.h)] # <<>>

\* a get() of greenlet t of process p has received a part of a message, and the
\* pipe is empty and no process can write to it
CutShort(p, t) ==
  /\ CanRun(p, t)
  /\ task[p][t].pc \in {"get_hdr", "get_body"}
  /\ Consumed(task[p][t]) # <<>>
  /\ hnd[p][task[p][t].h].fd # "None"
  /\ pipes[PipeOf(task[p][t].h)] = <<>>
  /\ NoWriters(PipeOf(task[p][t].h))

\* C8 (truncation): when the write end is closed after get() has received a part
\* of a message - some bytes of the length prefix, the whole prefix and no byte of
\* the payload, or some bytes of the payload - get() ends with the "interrupted
\* by EOF" error, never with EOFError.
TruncatedNotEof ==
  [][\A p \in Pids, t \in Tasks :
       (CutShort(p, t) /\ Recv(p, t)) =>
         last' = Result(p, t, "get", task[p][t].h, TruncatedMessageError, <<>>)]_vars

\* C9 (spawn, parent side): once start_process has ended in the parent, every
\* handle of childhandles is closed there and no longer in _all_handles, and
\* every handle still in _all_handles is open, registered for the parent and has
\* its descriptor.
ParentSideHandoff ==
  (last.op = "start_process" /\ pstate[last.pid] = "target") =>
    LET p == last.pid
    IN  /\ \A h \in Range(last.val) :
             hnd[p][h].closed /\ h \notin Range(all_handles[p]) /\ h \notin fds[p]
        /\ \A h \in Range(all_handles[p]) :
             /\ ~hnd[p][h].closed
             /\ hnd[p][h].legit_pid = p
             /\ hnd[p][h].fd = "fd"
             /\ h \in fds[p]

\* C10 (spawn, child side): when _child calls target, every handle the child
\* inherited and was not given is closed, and every handle of childhandles is
\* open, registered for the child, has its descriptor and a free lock, so that
\* get() or put() on it can go ahead.
ChildSideHandoff ==
  [][\A c \in Pids :
       ChildTarget(c) =>
         \A h \in Handles :
           hnd[c][h].exists =>
             IF h \in Range(task[c][MainTask].chl)
             THEN /\ ~hnd[c][h].closed
                  /\ hnd[c][h].legit_pid = c
                  /\ hnd[c][h].fd = "fd"
                  /\ h \in fds[c]
                  /\ LockFree(hnd[c][h])
             ELSE hnd[c][h].closed /\ h \notin fds[c]]_vars

\* C11 (validation under the lock): no get() or put() is at a read or a write on
\* a handle that is closed or whose descriptor is None, and none has ended with
\* the error of such a read or write; a call that waited for the lock of a
\* handle closed in the meantime ends with the "closed before" error instead.
ValidatedUnderLock ==
  /\ \A p \in Pids, h \in Handles :
       Holders(p, h) # {} => ~hnd[p][h].closed /\ hnd[p][h].fd # "None"
  /\ last.out # TypeError

\* a handle that process p may use: open, with its descriptor, registered for p
Valid(p, h) ==
  /\ hnd[p][h].exists
  /\ ~hnd[p][h].closed
  /\ hnd[p][h].fd = "fd"
  /\ h \in fds[p]
  /\ hnd[p][h].legit_pid = p

\* C12 (exclusive ownership): in every state, those between p.start() and the
\* end of the closing loops of start_process and _child included, no handle is
\* valid in two processes and none is in the _all_handles of two processes.
ExclusiveOwnership ==
  \A h \in Handles, p \in Pids, q \in Pids :
    p # q =>
      /\ ~(Valid(p, h) /\ Valid(q, h))
      /\ ~(h \in Range(all_handles[p]) /\ h \in Range(all_handles[q]))

\* C13 (child side, step 1): when _child calls target, the child's _all_handles
\* holds exactly the handles of childhandles, on POSIX and on Windows: it was
\* reset to the parent's list and every close() of the loop removed its handle.
RegistryResetInChild ==
  [][\A c \in Pids :
       ChildTarget(c) => Range(all_handles[c]) = Range(task[c][MainTask].chl)]_vars

\* C14 (spawn with locks held): whatever get() or put() of the parent is inside
\* its lock when the process is created, _child ends its loop without an error
\* and calls target, and no lock of a handle the child may use is taken without
\* a get() or put() of the child holding it.
ChildReachesTarget ==
  \A c \in Pids :
    /\ pstate[c] # "failed"
    /\ pstate[c] = "target" =>
         \A h \in Handles : Valid(c, h) /\ ~LockFree(hnd[c][h]) => Holders(c, h) # {}

\* no start_process and no _child is in its closing loop
SpawnsDone ==
  /\ \A p \in Pids : pstate[p] # "init"
  /\ \A p \in Pids, t \in Tasks : task[p][t].pc # "spawn_close"

\* the processes that have the descriptor of handle h open
OpenIn(h) == {p \in Pids : h \in fds[p]}

\* C15 (single owner of a pipe end): once the closing loops of start_process and
\* _child have ended, every pipe end is open in one process at most, so that a
\* reader is not kept from end-of-file by a copy of the write end left open in
\* another process.
OneOwnerAfterSpawn ==
  SpawnsDone => \A h \in Handles : Cardinality(OpenIn(h)) <= 1

\* C16 (lock release): when a get() or put() that is inside the lock ends, with
\* a value or with an error, the lock of its handle is free in the next state;
\* a get() or put() refused by _validate_process has not touched the lock.  So
\* no call that has ended keeps a close(), get() or put() from the handle.
LockReleased ==
  [][\A p \in Pids, t \in Tasks :
       /\ (t \in Holders(p, task[p][t].h) /\ task'[p][t].pc = "idle" /\ pstate'[p] = "target") =>
            /\ LockFree(hnd'[p][task[p][t].h])
            /\ last'.pid = p /\ last'.task = t /\ last'.h = task[p][t].h
       /\ \A h \in Handles :
            ((Get(p, t, h) \/ \E o \in Objects : Put(p, t, h, o))
               /\ ValidateProcess(p, hnd[p][h]) # Ok) =>
              /\ last'.out = ValidateProcess(p, hnd[p][h])
              /\ hnd' = hnd /\ task' = task]_vars

\* C16: a get() ended with EOFError and left the lock free for a get() of
\* another greenlet that waits for it
LockReleasedWitness ==
  /\ last.op = "get"
  /\ last.out = EOFError
  /\ LockFree(hnd[last.pid][last.h])
  /\ \E u \in Tasks : task[last.pid][u].pc = "get_lock" /\ task[last.pid][u].h = last.h

\* C17 (closed state): a closed handle has no descriptor and is not in
\* _all_handles, and every handle in _all_handles is open; while its process
\* lives a closed handle stays closed; a close() that succeeds closes an open
\* handle, removes it alone from the list and the descriptor table of its
\* process, and leaves every other handle, list and table as it was.
ClosedState ==
  /\ [](\A p \in Pids, h \in Handles :
          /\ hnd[p][h].closed => hnd[p][h].fd = "None" /\ h \notin Range(all_handles[p])
          /\ h \in Range(all_handles[p]) => hnd[p][h].exists /\ ~hnd[p][h].closed)
  /\ [][\A p \in Pids, h \in Handles :
          /\ (hnd[p][h].closed /\ pstate'[p] = pstate[p]) => hnd'[p][h].closed
          /\ \A t \in Tasks :
               (Close(p, t, h) /\ last'.out = Ok) =>
                 /\ ~hnd[p][h].closed /\ hnd'[p][h].closed
                 /\ \A q \in Pids, g \in Handles :
                      <<q, g>> # <<p, h>> => hnd'[q][g] = hnd[q][g]
                 /\ all_handles'[p] = SelectSeq(all_handles[p], LAMBDA g : g # h)
                 /\ fds'[p] = fds[p] \ {h}
                 /\ \A q \in Pids \ {p} :
                      all_handles'[q] = all_handles[q] /\ fds'[q] = fds[q]]_vars

\* C17: a close() has succeeded on one handle and the other handle of the pipe
\* is still open and in _all_handles
ClosedStateWitness ==
  /\ last.op = "close"
  /\ last.out = Ok
  /\ hnd[last.pid][last.h].closed
  /\ \E g \in Range(all_handles[last.pid]) : g # last.h /\ Valid(last.pid, g)

\* C18 (_recv_in_buffer): inside one call the bytes read are appended in the
\* order they arrive and the call returns when exactly size bytes are read; a
\* read of no byte ends the call with EOFError when no byte was read in this
\* call, and with the "interrupted by EOF" error when at least one was.
ReadExact ==
  /\ [](\A p \in Pids, t \in Tasks :
          task[p][t].pc \in {"get_hdr", "get_body"} =>
            /\ Len(task[p][t].data) + task[p][t].remaining = task[p][t].size
            /\ task[p][t].remaining > 0)
  /\ [][\A p \in Pids, t \in Tasks :
          (Recv(p, t) /\ hnd[p][task[p][t].h].fd # "None") =>
            LET tk == task[p][t]
                k == PipeOf(tk.h)
                chunk == Take(pipes[k], Len(pipes[k]) - Len(pipes'[k]))
            IN  IF pipes[k] = <<>>
                THEN last' = Result(p, t, "get", tk.h,
                                    IF tk.data = <<>> THEN EOFError
                                    ELSE TruncatedMessageError, <<>>)
                ELSE /\ chunk # <<>> /\ pipes[k] = chunk \o pipes'[k]
                     /\ IF task'[p][t].pc = tk.pc
                        THEN task'[p][t].data = tk.data \o chunk
                        ELSE /\ Len(tk.data \o chunk) = tk.size
                             /\ task'[p][t].pc = "get_body" =>
                                  Pack(task'[p][t].size) = tk.data \o chunk
                             /\ (tk.pc = "get_body" /\ last'.out = Ok) =>
                                  Dumps(last'.val) = tk.data \o chunk]_vars

\* C18: a get() ended with the "interrupted by EOF" error: its read returned no
\* byte after a part of what the call had asked for
ReadExactWitness ==
  /\ last.op = "get"
  /\ last.out = TruncatedMessageError
  /\ NoWriters(PipeOf(last.h))

\* C19 (join): a join() without a timeout leaves its polling loop only when the
\* child is no longer alive, and then it can; a join() with a finite timeout can
\* always leave it, the child alive or not; every join() that returns has called
\* the join(timeout=0) of multiprocessing.Process once; and while a join() polls,
\* the other greenlets of its process are not kept from running by it.
JoinWaits ==
  /\ [](\A p \in Pids, t \in Tasks :
          (task[p][t].pc = "join_poll" /\ CanRun(p, t)) =>
            /\ task[p][t].timeout # "None" => ENABLED JoinTimeout(p, t)
            /\ pstate[task[p][t].h] \notin {"init", "target"} => ENABLED JoinPoll(p, t)
            /\ \A u \in Tasks \ {t} : CanRun(p, u))
  /\ [](last.op = "join" => last.val = <<1>>)
  /\ [][\A p \in Pids, t \in Tasks :
          (task[p][t].pc = "join_poll" /\ task'[p][t].pc # "join_poll"
             /\ pstate'[p] = "target" /\ task[p][t].timeout = "None") =>
            pstate[task[p][t].h] \notin {"init", "target"}]_vars

\* C19: a join() with a timeout has returned while the child is still alive
JoinWaitsWitness ==
  /\ last.op = "join"
  /\ pstate[last.h] = "target"

\* C20 (length prefix): get() takes the four bytes of the prefix as an unsigned
\* number n and then reads n bytes.  A prefix with the top bit set stands for
\* 2^31 bytes or more, so while fewer bytes than that were written to the pipe
\* the get() that read it has not ended, and the size it waits for is never
\* negative.
UnsignedLengthPrefix ==
  \A k \in PipeIds :
    /\ \A pt \in Getting(k) : task[pt[1]][pt[2]].size >= 0
    /\ (Len(wire[k]) >= 4 /\ wire[k][1] >= 128) => ~(last.op = "get" /\ PipeOf(last.h) = k)

====
